---- MODULE Spec2Model ----
(***************************************************************************)
(* Model of tools/diagnostics/src/lib.rs: the LogFormat selector (as_str,  *)
(* variants, FromStr), the Logger methods and the process-wide LOGGER      *)
(* slot behind init() and the log:: functions.                             *)
(*                                                                         *)
(* Text is a sequence of one-character strings; "\n" is the line break.    *)
(* Three specifications share the variables:                               *)
(*   SpecFormat  parsing and rendering of LogFormat                        *)
(*   SpecLogger  the methods of one Logger value                           *)
(*   Spec        threads using init() and the log:: functions              *)
(***************************************************************************)
EXTENDS Naturals, Sequences, FiniteSets

VARIABLES
    s,          \* SpecFormat: the text handed to from_str
    base,       \* SpecFormat: the lower-case word s is a case variant of
    parsed,     \* SpecFormat: result of from_str(s)
    rendered,   \* SpecFormat: as_str of the parsed value
    reparsed,   \* SpecFormat: from_str of the rendered name
    self,       \* SpecLogger: the Logger value the methods are called on
    calls,      \* SpecLogger: the method calls made, with the stream lengths before each
    ncalls,     \* number of calls made so far (bounded by MaxCalls)
    colors,     \* whether console's style() emits escape codes in this process
    stdout,     \* standard output, all characters written so far
    stderr,     \* standard error, all characters written so far
    LOGGER,     \* Spec: the static OnceLock<Logger>
    pc,         \* Spec: per thread, where it stands inside its current call
    local,      \* Spec: per thread, the arguments / locals of its current call
    ret,        \* Spec: per thread, what its last completed call returned
    accesses    \* Spec: the accesses to LOGGER, in the order they took effect

formatVars == <<s, base, parsed, rendered, reparsed>>
loggerVars == <<self, calls>>
ioVars     == <<ncalls, colors, stdout, stderr>>
globalVars == <<LOGGER, pc, local, ret, accesses>>
vars       == <<s, base, parsed, rendered, reparsed, self, calls, ncalls, colors,
                stdout, stderr, LOGGER, pc, local, ret, accesses>>

(***************************************************************************)
(* Bounds                                                                  *)
(***************************************************************************)
MaxLen == 2
MaxFrames == 2
MaxLoggerCalls == 2
NumThreads == 2
MaxCalls == 3

(***************************************************************************)
(* Text helpers                                                            *)
(***************************************************************************)
ASCII_UPPER ==
    <<"A", "B", "C", "D", "E", "F", "G", "H", "I", "J", "K", "L", "M",
      "N", "O", "P", "Q", "R", "S", "T", "U", "V", "W", "X", "Y", "Z">>

ASCII_LOWER ==
    <<"a", "b", "c", "d", "e", "f", "g", "h", "i", "j", "k", "l", "m",
      "n", "o", "p", "q", "r", "s", "t", "u", "v", "w", "x", "y", "z">>

\* u8::to_ascii_lowercase: 'A'..='Z' map to 'a'..='z', every other byte is kept.
char_to_ascii_lowercase(c) ==
    IF \E i \in 1..Len(ASCII_UPPER) : ASCII_UPPER[i] = c
    THEN ASCII_LOWER[CHOOSE i \in 1..Len(ASCII_UPPER) : ASCII_UPPER[i] = c]
    ELSE c

\* str::to_ascii_lowercase
to_ascii_lowercase(t) == [i \in 1..Len(t) |-> char_to_ascii_lowercase(t[i])]

RECURSIVE join(_, _)
\* [T]::join(sep): the items with sep between neighbours
join(items, sep) ==
    IF Len(items) = 0 THEN <<>>
    ELSE IF Len(items) = 1 THEN items[1]
    ELSE items[1] \o sep \o join(Tail(items), sep)

\* needle occurs in hay as a contiguous run
Contains(hay, needle) ==
    \E i \in 0..(Len(hay) - Len(needle)) :
        Len(needle) = 0 \/ SubSeq(hay, i + 1, i + Len(needle)) = needle

(***************************************************************************)
(* LogFormat                                                               *)
(***************************************************************************)
Human  == "Human"
GitHub == "GitHub"
LogFormat == {Human, GitHub}

\* faulty variant: the other variant marked as the default
LogFormat_default_github == GitHub

\* #[default] Human
LogFormat_default == Human

STR_human  == <<"h", "u", "m", "a", "n">>
STR_github == <<"g", "i", "t", "h", "u", "b">>
STR_gh     == <<"g", "h">>

\* faulty variant: the GitHub variant rendered by its alias
as_str_alias(f) == IF f = Human THEN STR_human ELSE STR_gh

as_str(f) == IF f = Human THEN STR_human ELSE STR_github

variants == <<STR_human, STR_github>>

Ok(v)  == [tag |-> "Ok", val |-> v]
Err(e) == [tag |-> "Err", err |-> e]

from_str_error(other) ==
    <<"i", "n", "v", "a", "l", "i", "d", " ", "d", "i", "a", "g", "n", "o", "s",
      "t", "i", "c", "s", " ", "f", "o", "r", "m", "a", "t", " ", "'">>
    \o other
    \o <<"'", ".", " ", "e", "x", "p", "e", "c", "t", "e", "d", " ", "o", "n", "e",
         " ", "o", "f", ":", " ">>
    \o join(variants, <<",", " ">>)

\* faulty variant: the match done on the text as given, without lower-casing
from_str_case_sensitive(t) ==
    IF t = STR_human THEN Ok(Human)
    ELSE IF t = STR_github \/ t = STR_gh THEN Ok(GitHub)
    ELSE Err(from_str_error(t))

from_str(t) ==
    LET other == to_ascii_lowercase(t) IN
    IF other = STR_human THEN Ok(Human)
    ELSE IF other = STR_github \/ other = STR_gh THEN Ok(GitHub)
    ELSE Err(from_str_error(other))

(***************************************************************************)
(* SpecFormat: one text is parsed, the value rendered, the name parsed     *)
(* again.                                                                  *)
(***************************************************************************)
None == [tag |-> "None"]
Some(v) == [tag |-> "Some", val |-> v]

\* characters of the short arbitrary inputs
Alphabet == {"g", "h", "-"}

RECURSIVE TextsUpTo(_)
TextsUpTo(n) ==
    IF n = 0 THEN {<<>>}
    ELSE LET shorter == TextsUpTo(n - 1) IN
         shorter \cup {Append(t, c) : t \in shorter, c \in Alphabet}

\* lower-case words the inputs are case variants of
Words ==
    {variants[i] : i \in 1..Len(variants)}
    \cup {STR_gh, <<"x", "m", "l">>, <<"h", "u", "m", "a">>,
          <<"h", "u", "m", "a", "n", "s">>, <<" ", "h", "u", "m", "a", "n">>,
          <<"g", "i", "t">>, <<"g", "i", "t", "h", "u", "b", "s">>}
    \cup TextsUpTo(MaxLen)

char_to_ascii_uppercase(c) ==
    IF \E i \in 1..Len(ASCII_LOWER) : ASCII_LOWER[i] = c
    THEN ASCII_UPPER[CHOOSE i \in 1..Len(ASCII_LOWER) : ASCII_LOWER[i] = c]
    ELSE c

\* the case variant of word w with the characters at the positions in up raised
CaseVariant(w, up) ==
    [i \in 1..Len(w) |-> IF i \in up THEN char_to_ascii_uppercase(w[i]) ELSE w[i]]

IdleLogger == [format |-> LogFormat_default]

InitFormatIdle ==
    /\ s = <<>> /\ base = <<>>
    /\ parsed = None /\ rendered = None /\ reparsed = None

InitLoggerIdle ==
    /\ self = IdleLogger
    /\ calls = <<>>

InitIoIdle ==
    /\ ncalls = 0 /\ colors = FALSE
    /\ stdout = <<>> /\ stderr = <<>>

InitGlobalIdle ==
    /\ LOGGER = None
    /\ pc = <<>> /\ local = <<>> /\ ret = <<>>
    /\ accesses = <<>>

InitFormat ==
    /\ \E w \in Words : \E up \in SUBSET (1..Len(w)) :
          /\ base = w
          /\ s = CaseVariant(w, up)
    /\ parsed = None /\ rendered = None /\ reparsed = None
    /\ InitLoggerIdle /\ InitIoIdle /\ InitGlobalIdle

\* s.parse::<LogFormat>()
Parse ==
    /\ parsed = None
    /\ parsed' = from_str(s)
    /\ UNCHANGED <<s, base, rendered, reparsed, loggerVars, ioVars, globalVars>>

\* format.as_str() (and Display, which writes as_str) of the parsed value
Render ==
    /\ parsed.tag = "Ok"
    /\ rendered = None
    /\ rendered' = Some(as_str(parsed.val))
    /\ UNCHANGED <<s, base, parsed, reparsed, loggerVars, ioVars, globalVars>>

\* the rendered name parsed again
Reparse ==
    /\ rendered # None
    /\ reparsed = None
    /\ reparsed' = from_str(rendered.val)
    /\ UNCHANGED <<s, base, parsed, rendered, loggerVars, ioVars, globalVars>>

NextFormat == Parse \/ Render \/ Reparse

SpecFormat == InitFormat /\ [][NextFormat]_vars

(***************************************************************************)
(* Logger                                                                  *)
(***************************************************************************)
\* escape sequences of the console crate, one element of the text each
ANSI_RED    == "ESC[31m"
ANSI_YELLOW == "ESC[33m"
ANSI_CYAN   == "ESC[36m"
ANSI_BOLD   == "ESC[1m"
ANSI_RESET  == "ESC[0m"
AnsiCodes == {ANSI_RED, ANSI_YELLOW, ANSI_CYAN, ANSI_BOLD, ANSI_RESET}

\* Display of console::style(text) with the given colour and attributes: the
\* codes, the text and a reset when colours are enabled, the bare text otherwise
style(text, codes) ==
    IF colors THEN codes \o text \o <<ANSI_RESET>> ELSE text

\* one eprintln! / println!: the text and a line break, to stderr / stdout
eprintln(text) == [stream |-> "stderr", text |-> text \o <<"\n">>]
println(text)  == [stream |-> "stdout", text |-> text \o <<"\n">>]

Logger_new(format) == [format |-> format]

is_human(lg) == lg.format = Human

\* faulty variant: the CI branch also writing to the diagnostic stream
info_both(lg, message) ==
    IF lg.format = Human THEN <<eprintln(message)>>
    ELSE <<eprintln(message), println(message)>>

\* Each method gives the writes it performs, in order.
info(lg, message) ==
    IF lg.format = Human THEN <<eprintln(message)>>
    ELSE <<println(message)>>

\* faulty variant: a space after the annotation prefix
warn_spaced(lg, message) ==
    IF lg.format = Human
    THEN <<eprintln(style(<<"w", "a", "r", "n", "i", "n", "g", ":">>,
                          <<ANSI_YELLOW, ANSI_BOLD>>) \o <<" ">> \o message)>>
    ELSE <<println(<<":", ":", "w", "a", "r", "n", "i", "n", "g", ":", ":", " ">>
                   \o message)>>

warn(lg, message) ==
    IF lg.format = Human
    THEN <<eprintln(style(<<"w", "a", "r", "n", "i", "n", "g", ":">>,
                          <<ANSI_YELLOW, ANSI_BOLD>>) \o <<" ">> \o message)>>
    ELSE <<println(<<":", ":", "w", "a", "r", "n", "i", "n", "g", ":", ":">>
                   \o message)>>

error(lg, message) ==
    IF lg.format = Human
    THEN <<eprintln(style(<<"e", "r", "r", "o", "r", ":">>, <<ANSI_RED, ANSI_BOLD>>)
                    \o <<" ">> \o message)>>
    ELSE <<println(<<":", ":", "e", "r", "r", "o", "r", ":", ":">> \o message)>>

\* faulty variant: the context brackets and the separator written for no frames too
error_with_context_always(lg, context, message) ==
    IF lg.format = Human
    THEN LET context_str ==
                 <<"[">>
                 \o join([i \in 1..Len(context) |-> style(context[i], <<ANSI_CYAN>>)],
                         <<" ", ">", " ">>)
                 \o <<"]">>
         IN <<eprintln(style(<<"e", "r", "r", "o", "r", ":">>, <<ANSI_RED, ANSI_BOLD>>)
                       \o context_str \o <<" ">> \o message)>>
    ELSE LET msg == join(context, <<" ", ">", " ">>) \o <<":", " ">> \o message
         IN <<println(<<":", ":", "e", "r", "r", "o", "r", ":", ":">> \o msg)>>

error_with_context(lg, context, message) ==
    IF lg.format = Human
    THEN LET context_str ==
                 IF Len(context) = 0 THEN <<>>
                 ELSE <<"[">>
                      \o join([i \in 1..Len(context) |->
                                   style(context[i], <<ANSI_CYAN>>)],
                              <<" ", ">", " ">>)
                      \o <<"]">>
         IN <<eprintln(style(<<"e", "r", "r", "o", "r", ":">>, <<ANSI_RED, ANSI_BOLD>>)
                       \o context_str \o <<" ">> \o message)>>
    ELSE LET msg == IF Len(context) = 0 THEN message
                    ELSE join(context, <<" ", ">", " ">>) \o <<":", " ">> \o message
         IN <<println(<<":", ":", "e", "r", "r", "o", "r", ":", ":">> \o msg)>>

RECURSIVE Written(_, _)
\* what the writes put on the named stream, in order
Written(stream, writes) ==
    IF Len(writes) = 0 THEN <<>>
    ELSE (IF writes[1].stream = stream THEN writes[1].text ELSE <<>>)
         \o Written(stream, Tail(writes))

\* the writes take effect on the two process streams
Emit(writes) ==
    /\ stdout' = stdout \o Written("stdout", writes)
    /\ stderr' = stderr \o Written("stderr", writes)

(***************************************************************************)
(* SpecLogger: the methods of one Logger, called one after another.        *)
(***************************************************************************)
Messages ==
    {<<"t", "w", "o", "\n", "l", "i", "n", "e", "s">>,
     <<"d", "i", "s", "k", " ", "f", "u", "l", "l">>,
     <<"u", "n", "d", "e", "f", "i", "n", "e", "d", " ", "s", "y", "m", "b", "o", "l">>}

Frames == {<<"b", "u", "i", "l", "d">>, <<"l", "i", "n", "k">>}

RECURSIVE ContextsUpTo(_)
ContextsUpTo(n) ==
    IF n = 0 THEN {<<>>}
    ELSE LET shorter == ContextsUpTo(n - 1) IN
         shorter \cup {Append(c, f) : c \in shorter, f \in Frames}

Contexts == ContextsUpTo(MaxFrames)

InitLogger ==
    /\ \E f \in LogFormat : self = Logger_new(f)
    /\ colors \in BOOLEAN
    /\ calls = <<>>
    /\ ncalls = 0
    /\ stdout = <<>> /\ stderr = <<>>
    /\ InitFormatIdle /\ InitGlobalIdle

\* the record of a call: what was called, and how long the streams were before
Called(op, context, message, result) ==
    /\ Len(calls) < MaxLoggerCalls
    /\ calls' = Append(calls, [op |-> op, context |-> context, message |-> message,
                               result |-> result,
                               out0 |-> Len(stdout), err0 |-> Len(stderr)])
    /\ ncalls' = ncalls + 1
    /\ UNCHANGED <<self, colors, formatVars, globalVars>>

IsHuman ==
    /\ Called("is_human", <<>>, <<>>, is_human(self))
    /\ UNCHANGED <<stdout, stderr>>

Info ==
    \E m \in Messages :
        /\ Called("info", <<>>, m, "unit")
        /\ Emit(info(self, m))

Warn ==
    \E m \in Messages :
        /\ Called("warn", <<>>, m, "unit")
        /\ Emit(warn(self, m))

Error ==
    \E m \in Messages :
        /\ Called("error", <<>>, m, "unit")
        /\ Emit(error(self, m))

ErrorWithContext ==
    \E c \in Contexts, m \in Messages :
        /\ Called("error_with_context", c, m, "unit")
        /\ Emit(error_with_context(self, c, m))

NextLogger == IsHuman \/ Info \/ Warn \/ Error \/ ErrorWithContext

SpecLogger == InitLogger /\ [][NextLogger]_vars

(***************************************************************************)
(* Spec: threads calling init() and the log:: functions on the one LOGGER. *)
(* A call to init is one step (its only shared access is LOGGER.set); a    *)
(* call to a log:: function is two: logger(), then the Logger method on    *)
(* the reference obtained.  The OnceLock operations are atomic.            *)
(***************************************************************************)
Threads == 1..NumThreads

\* faulty variant: set storing the value whether or not the cell is empty
OnceLock_set_overwrite(cell, value) ==
    [cell |-> Some(value), result |-> Ok("unit")]

\* OnceLock::set: stores the value if the cell is empty, hands it back if not
OnceLock_set(cell, value) ==
    IF cell = None
    THEN [cell |-> Some(value), result |-> Ok("unit")]
    ELSE [cell |-> cell, result |-> Err(value)]

\* faulty variant: the initializer run and stored on every access
OnceLock_get_or_init_always(cell, init_value) ==
    [cell |-> Some(init_value), value |-> init_value, ran |-> TRUE]

\* OnceLock::get_or_init: the stored value, after storing init_value if empty
OnceLock_get_or_init(cell, init_value) ==
    IF cell = None
    THEN [cell |-> Some(init_value), value |-> init_value, ran |-> TRUE]
    ELSE [cell |-> cell, value |-> cell.val, ran |-> FALSE]

\* the arguments the threads pass to the log:: functions
LogCalls ==
    LET m == <<"d", "i", "s", "k", " ", "f", "u", "l", "l">> IN
    {[fn |-> f, context |-> <<>>, message |-> m] : f \in {"info", "warn", "error"}}
    \cup {[fn |-> "error_with_context",
            context |-> <<(<<"b", "u", "i", "l", "d">>), (<<"l", "i", "n", "k">>)>>,
            message |-> m]}
    \cup {[fn |-> "is_human", context |-> <<>>, message |-> <<>>]}

Init ==
    /\ LOGGER = None
    /\ pc = [t \in Threads |-> "idle"]
    /\ local = [t \in Threads |-> None]
    /\ ret = [t \in Threads |-> None]
    /\ accesses = <<>>
    /\ ncalls = 0
    /\ colors \in BOOLEAN
    /\ stdout = <<>> /\ stderr = <<>>
    /\ InitFormatIdle /\ InitLoggerIdle

\* init(format): let _ = LOGGER.set(Logger::new(format)); the result of set
\* is dropped and init returns ()
InitCall(t) ==
    /\ pc[t] = "idle"
    /\ ncalls < MaxCalls
    /\ \E format \in LogFormat :
          LET r == OnceLock_set(LOGGER, Logger_new(format)) IN
          /\ LOGGER' = r.cell
          /\ accesses' = Append(accesses,
                                [fn |-> "init", format |-> format,
                                 installed |-> (r.result.tag = "Ok"),
                                 seen |-> r.cell.val.format])
    /\ ret' = [ret EXCEPT ![t] = [fn |-> "init", val |-> "unit"]]
    /\ ncalls' = ncalls + 1
    /\ UNCHANGED <<pc, local, colors, stdout, stderr, formatVars, loggerVars>>

\* log::info / warn / error / error_with_context / is_human, up to the return
\* of logger(): LOGGER.get_or_init(|| Logger::new(LogFormat::default()))
LoggerGet(t) ==
    /\ pc[t] = "idle"
    /\ ncalls < MaxCalls
    /\ \E c \in LogCalls :
          LET r == OnceLock_get_or_init(LOGGER, Logger_new(LogFormat_default)) IN
          /\ LOGGER' = r.cell
          /\ local' = [local EXCEPT ![t] =
                           [fn |-> c.fn, context |-> c.context,
                            message |-> c.message, logger |-> r.value]]
          /\ accesses' = Append(accesses,
                                [fn |-> c.fn, format |-> r.value.format,
                                 installed |-> r.ran,
                                 seen |-> r.value.format])
    /\ pc' = [pc EXCEPT ![t] = "method"]
    /\ ncalls' = ncalls + 1
    /\ UNCHANGED <<ret, colors, stdout, stderr, formatVars, loggerVars>>

\* the Logger method the log:: function delegates to, on the logger obtained
LogMethod(t) ==
    /\ pc[t] = "method"
    /\ LET c == local[t] IN
          /\ Emit(CASE c.fn = "info" -> info(c.logger, c.message)
                    [] c.fn = "warn" -> warn(c.logger, c.message)
                    [] c.fn = "error" -> error(c.logger, c.message)
                    [] c.fn = "error_with_context" ->
                           error_with_context(c.logger, c.context, c.message)
                    [] c.fn = "is_human" -> <<>>)
          /\ ret' = [ret EXCEPT ![t] =
                         [fn |-> c.fn,
                          val |-> IF c.fn = "is_human" THEN is_human(c.logger)
                                  ELSE "unit"]]
    /\ pc' = [pc EXCEPT ![t] = "idle"]
    /\ local' = [local EXCEPT ![t] = None]
    /\ UNCHANGED <<LOGGER, accesses, ncalls, colors, formatVars, loggerVars>>

Next ==
    \E t \in Threads :
        \/ InitCall(t)
        \/ LoggerGet(t)
        \/ LogMethod(t)

Spec == Init /\ [][Next]_vars

(***************************************************************************)
(* Claims about LogFormat (SpecFormat)                                     *)
(***************************************************************************)
AcceptedWords ==
    {<<"h", "u", "m", "a", "n">>, <<"g", "i", "t", "h", "u", "b">>, <<"g", "h">>}

\* C6: whenever the lower-cased input is none of human, github, gh, parsing
\* fails and the error message contains the input exactly as it was given and
\* the list "human, github".
ParseErrorNamesInputAsGiven ==
    (parsed # None /\ base \notin AcceptedWords) =>
        /\ parsed.tag = "Err"
        /\ Contains(parsed.err, s)
        /\ Contains(parsed.err,
                    <<"h", "u", "m", "a", "n", ",", " ", "g", "i", "t", "h", "u", "b">>)

\* C9: parsing ignores ASCII case and accepts exactly the recognized names:
\* every case variant of "human" gives Human, every case variant of "github"
\* or "gh" gives GitHub, every other input is an error.
ParseIsCaseInsensitiveAndExact ==
    parsed # None =>
        /\ base = <<"h", "u", "m", "a", "n">> => parsed = Ok(Human)
        /\ base = <<"g", "i", "t", "h", "u", "b">> => parsed = Ok(GitHub)
        /\ base = <<"g", "h">> => parsed = Ok(GitHub)
        /\ base \notin AcceptedWords => parsed.tag = "Err"

\* a mixed-case alias has been parsed
ParseMixedCaseAliasWitness ==
    /\ s = <<"G", "h">>
    /\ parsed = Ok(GitHub)

\* C10: rendering a parsed value gives the canonical lower-case name ("gh" and
\* "GitHub" give "github"), parsing a rendered name gives the value back, and
\* each entry of variants() parses and renders back to itself.
ParseRenderRoundTrip ==
    /\ rendered # None =>
          /\ base = <<"h", "u", "m", "a", "n">> =>
                rendered.val = <<"h", "u", "m", "a", "n">>
          /\ base \in {<<"g", "i", "t", "h", "u", "b">>, <<"g", "h">>} =>
                rendered.val = <<"g", "i", "t", "h", "u", "b">>
    /\ reparsed # None => reparsed = Ok(parsed.val)
    /\ variants = <<(<<"h", "u", "m", "a", "n">>), (<<"g", "i", "t", "h", "u", "b">>)>>
    /\ \A i \in 1..Len(variants) :
          s = variants[i] =>
              /\ parsed # None => parsed.tag = "Ok"
              /\ rendered # None => rendered.val = s

\* the alias "gh" in upper case went through parse, render and parse again
RoundTripAliasWitness ==
    /\ s = <<"G", "H">>
    /\ rendered = Some(<<"g", "i", "t", "h", "u", "b">>)
    /\ reparsed = Ok(GitHub)

(***************************************************************************)
(* Claims about the Logger methods (SpecLogger)                            *)
(***************************************************************************)
WritingOps == {"info", "warn", "error", "error_with_context"}

\* what call k put on standard output / standard error
OutOf(k) ==
    SubSeq(stdout, calls[k].out0 + 1,
           IF k < Len(calls) THEN calls[k + 1].out0 ELSE Len(stdout))

ErrOf(k) ==
    SubSeq(stderr, calls[k].err0 + 1,
           IF k < Len(calls) THEN calls[k + 1].err0 ELSE Len(stderr))

\* exactly one line: one line break, and it ends the text
OneLine(text) ==
    /\ Len(text) >= 1
    /\ text[Len(text)] = "\n"
    /\ \A i \in 1..(Len(text) - 1) : text[i] # "\n"

\* the text with its styling codes stripped
strip_ansi(text) == SelectSeq(text, LAMBDA c : c \notin AnsiCodes)

RECURSIVE Breadcrumb(_, _)
\* the first n frames, outermost first, with " > " between them
Breadcrumb(context, n) ==
    IF n = 1 THEN context[1]
    ELSE Breadcrumb(context, n - 1) \o <<" ", ">", " ">> \o context[n]

\* the number of line breaks in a text
LineBreaks(text) == Len(SelectSeq(text, LAMBDA c : c = "\n"))

RECURSIVE FrameLineBreaks(_)
\* the number of line breaks in the frames of a context
FrameLineBreaks(context) ==
    IF Len(context) = 0 THEN 0
    ELSE LineBreaks(context[1]) + FrameLineBreaks(Tail(context))

\* C4 as claimed: every call of info, warn, error or error_with_context writes
\* exactly one line to exactly one stream: to stderr and nothing to stdout
\* when the format is Human, to stdout and nothing to stderr when it is GitHub.
OneLineToOneStream ==
    \A k \in 1..Len(calls) :
        calls[k].op \in WritingOps =>
            IF self.format = Human
            THEN OutOf(k) = <<>> /\ OneLine(ErrOf(k))
            ELSE ErrOf(k) = <<>> /\ OneLine(OutOf(k))

\* the text ends with a line break and holds, besides it, exactly the line
\* breaks that the message and the frames of call k bring along
OneTerminatedText(text, k) ==
    /\ Len(text) >= 1
    /\ text[Len(text)] = "\n"
    /\ LineBreaks(text) =
           1 + LineBreaks(calls[k].message) + FrameLineBreaks(calls[k].context)

\* C4 as amended: every call of info, warn, error or error_with_context writes
\* exactly one newline-terminated text to exactly one stream (stderr when the
\* format is Human, stdout when it is GitHub) and nothing to the other; the
\* text is a single line exactly when message and frames hold no line break.
OneTextToOneStream ==
    \A k \in 1..Len(calls) :
        calls[k].op \in WritingOps =>
            IF self.format = Human
            THEN OutOf(k) = <<>> /\ OneTerminatedText(ErrOf(k), k)
            ELSE ErrOf(k) = <<>> /\ OneTerminatedText(OutOf(k), k)

\* a CI-mode logger has made two writing calls: an info whose message holds a
\* line break, and an error with context
OneTextToOneStreamWitness ==
    /\ self.format = GitHub
    /\ Len(calls) = 2
    /\ calls[1].op = "info" /\ LineBreaks(calls[1].message) = 1
    /\ calls[2].op = "error_with_context" /\ calls[2].context # <<>>
    /\ LineBreaks(stdout) >= 3
    /\ stderr = <<>>

\* C5: in human mode error_with_context with frames f1..fn writes, styling
\* stripped, "error: [f1 > ... > fn] m": one space between label and context
\* and between context and message.
HumanContextAfterLabelSpace ==
    \A k \in 1..Len(calls) :
        (/\ self.format = Human
         /\ calls[k].op = "error_with_context"
         /\ calls[k].context # <<>>) =>
            strip_ansi(ErrOf(k)) =
                <<"e", "r", "r", "o", "r", ":", " ", "[">>
                \o Breadcrumb(calls[k].context, Len(calls[k].context))
                \o <<"]", " ">> \o calls[k].message \o <<"\n">>

\* C7: in CI mode the line written is exactly "::warning::" + m for warn,
\* "::error::" + m for error, and "::error::" + frames joined by " > " + ": " + m
\* for error_with_context with frames.
GitHubLinesExact ==
    \A k \in 1..Len(calls) :
        self.format = GitHub =>
            /\ calls[k].op = "warn" =>
                  OutOf(k) = <<":", ":", "w", "a", "r", "n", "i", "n", "g", ":", ":">>
                             \o calls[k].message \o <<"\n">>
            /\ calls[k].op = "error" =>
                  OutOf(k) = <<":", ":", "e", "r", "r", "o", "r", ":", ":">>
                             \o calls[k].message \o <<"\n">>
            /\ (calls[k].op = "error_with_context" /\ calls[k].context # <<>>) =>
                  OutOf(k) = <<":", ":", "e", "r", "r", "o", "r", ":", ":">>
                             \o Breadcrumb(calls[k].context, Len(calls[k].context))
                             \o <<":", " ">> \o calls[k].message \o <<"\n">>
            /\ (/\ calls[k].op = "error_with_context"
                /\ calls[k].context = <<(<<"b", "u", "i", "l", "d">>),
                                        (<<"l", "i", "n", "k">>)>>
                /\ calls[k].message = <<"u", "n", "d", "e", "f", "i", "n", "e", "d",
                                        " ", "s", "y", "m", "b", "o", "l">>) =>
                  OutOf(k) = <<":", ":", "e", "r", "r", "o", "r", ":", ":",
                               "b", "u", "i", "l", "d", " ", ">", " ",
                               "l", "i", "n", "k", ":", " ",
                               "u", "n", "d", "e", "f", "i", "n", "e", "d", " ",
                               "s", "y", "m", "b", "o", "l", "\n">>

\* a CI-mode logger warned "disk full" and then reported the build > link error
GitHubLinesWitness ==
    /\ self.format = GitHub
    /\ Len(calls) = 2
    /\ calls[1].op = "warn"
    /\ calls[1].message = <<"d", "i", "s", "k", " ", "f", "u", "l", "l">>
    /\ calls[2].op = "error_with_context"
    /\ calls[2].context = <<(<<"b", "u", "i", "l", "d">>), (<<"l", "i", "n", "k">>)>>
    /\ calls[2].message = <<"u", "n", "d", "e", "f", "i", "n", "e", "d", " ",
                            "s", "y", "m", "b", "o", "l">>

\* C8: error_with_context with no frames writes the same bytes to the same
\* stream as error with the same message, in human mode and in CI mode.
EmptyContextSameAsError ==
    \A j \in 1..Len(calls) : \A k \in 1..Len(calls) :
        (/\ calls[j].op = "error"
         /\ calls[k].op = "error_with_context"
         /\ calls[k].context = <<>>
         /\ calls[k].message = calls[j].message) =>
            /\ OutOf(k) = OutOf(j)
            /\ ErrOf(k) = ErrOf(j)

\* a styled human-mode logger ran error(m) and then error_with_context([], m)
EmptyContextWitness ==
    /\ self.format = Human
    /\ colors
    /\ Len(calls) = 2
    /\ calls[1].op = "error"
    /\ calls[2].op = "error_with_context"
    /\ calls[2].context = <<>>
    /\ calls[2].message = calls[1].message
    /\ calls[1].message # <<>>
    /\ stderr # <<>>

(***************************************************************************)
(* Claims about the global logger (Spec)                                   *)
(***************************************************************************)
\* the values is_human has returned to the threads
IsHumanResults ==
    {ret[t].val : t \in {u \in Threads : ret[u] # None /\ ret[u].fn = "is_human"}}

\* the formats of the loggers the threads inside a log:: call are holding
HeldFormats == {local[t].logger.format : t \in {u \in Threads : pc[u] = "method"}}

\* C1: when the first two accesses to the logger are init(f1) and init(f2) with
\* f1 # f2, the second init changes nothing and fails in no way, and every
\* later log:: call works with format f1.
InitTwiceFirstWins ==
    (/\ Len(accesses) >= 2
     /\ accesses[1].fn = "init" /\ accesses[2].fn = "init"
     /\ accesses[1].format # accesses[2].format) =>
        LET f1 == accesses[1].format IN
        /\ LOGGER = Some([format |-> f1])
        /\ accesses[1].installed /\ ~accesses[2].installed
        /\ \A t \in Threads :
              (ret[t] # None /\ ret[t].fn = "init") => ret[t].val = "unit"
        /\ \A k \in 3..Len(accesses) : accesses[k].seen = f1
        /\ HeldFormats \subseteq {f1}
        /\ IsHumanResults \subseteq {f1 = Human}
        /\ f1 = Human => stdout = <<>>
        /\ f1 = GitHub => stderr = <<>>

\* init(GitHub), then init(Human), then a warning that has been written
InitTwiceWitness ==
    /\ Len(accesses) = 3
    /\ accesses[1].fn = "init" /\ accesses[1].format = GitHub
    /\ accesses[2].fn = "init" /\ accesses[2].format = Human
    /\ accesses[3].fn = "warn"
    /\ \A t \in Threads : pc[t] = "idle"
    /\ stdout # <<>>

\* C2: when the first access to the logger is a log:: function, that call
\* installs a Human logger, no later init (init(GitHub) included) changes it,
\* and is_human keeps returning true.
LogFirstInstallsHumanForGood ==
    (Len(accesses) >= 1 /\ accesses[1].fn # "init") =>
        /\ accesses[1].installed
        /\ LOGGER = Some([format |-> Human])
        /\ \A k \in 1..Len(accesses) :
              /\ accesses[k].seen = Human
              /\ k > 1 => ~accesses[k].installed
        /\ HeldFormats \subseteq {Human}
        /\ IsHumanResults \subseteq {TRUE}
        /\ stdout = <<>>

\* a log call came first, init(GitHub) after it, and is_human then returned
LogFirstWitness ==
    /\ Len(accesses) = 3
    /\ accesses[1].fn = "info"
    /\ accesses[2].fn = "init" /\ accesses[2].format = GitHub
    /\ accesses[3].fn = "is_human"
    /\ IsHumanResults = {TRUE}
    /\ stderr # <<>>

\* C3: under every interleaving of the threads' init and log:: calls the cell is
\* populated exactly once, by the first access, and every access and every
\* thread inside a call sees the one installed format.
OneInstallAllObserveSame ==
    /\ (LOGGER = None) = (accesses = <<>>)
    /\ Cardinality({k \in 1..Len(accesses) : accesses[k].installed})
           = (IF accesses = <<>> THEN 0 ELSE 1)
    /\ accesses # <<>> =>
          /\ accesses[1].installed
          /\ LOGGER = Some([format |-> accesses[1].format])
          /\ \A k \in 1..Len(accesses) : accesses[k].seen = accesses[1].format
          /\ HeldFormats \subseteq {accesses[1].format}
          /\ IsHumanResults \subseteq {accesses[1].format = Human}
          /\ stdout = <<>> \/ stderr = <<>>

\* two threads are inside log:: calls at once, holding the logger, after a
\* third access that was an init with the other format
ConcurrentFirstAccessWitness ==
    /\ Len(accesses) = 3
    /\ \E t \in Threads : \E u \in Threads :
          t # u /\ pc[t] = "method" /\ pc[u] = "method"
    /\ \E k \in 1..Len(accesses) :
          accesses[k].fn = "init" /\ accesses[k].format # LOGGER.val.format

====
